---- MODULE Spec2Model ----
(***************************************************************************)
(* A model of manuale's ACME API client, src/manuale/acme.py.              *)
(*                                                                         *)
(* Python str values are TLA+ strings, handled character by character with *)
(* Len, SubSeq and \o.  Python's None is the reserved string None, which   *)
(* holds a character no header, URL or body of the model contains.         *)
(***************************************************************************)
EXTENDS Integers, Sequences, FiniteSets, TLC

VARIABLES
    account_uri,      \* self.account.uri
    sent,             \* the HTTP requests issued by the call in progress, in order
    call,             \* the call the caller is waiting on and how it ended
    fetches,          \* how many GET /directory the CA has answered so far
    signed,           \* for each signed request sent so far, the fetch its nonce is from
    DEFAULT_HEADERS   \* the module's DEFAULT_HEADERS dict, line 15

vars == <<account_uri, sent, call, fetches, signed, DEFAULT_HEADERS>>

None == "~None~"

(***************************************************************************)
(* Python str methods used by acme.py and by urllib.parse.  The ones that  *)
(* loop or recurse are functions, so that each is applied to values.       *)
(***************************************************************************)

\* s[i:j] with 0-based i, j already clamped to 0..len(s)
Slice(s, i, j) == SubSeq(s, i + 1, j)

\* s[i] as a one-character string (0-based)
CharAt(s, i) == SubSeq(s, i + 1, i + 1)

\* the least element of a non-empty set of integers
Min(S) == CHOOSE i \in S : \A j \in S : i <= j
Max(S) == CHOOSE i \in S : \A j \in S : i >= j

\* s.startswith(p)
startswith[s \in STRING, p \in STRING] ==
    Len(s) >= Len(p) /\ SubSeq(s, 1, Len(p)) = p

\* t in s
contains[s \in STRING, t \in STRING] ==
    \E i \in 0..(Len(s) - Len(t)) : Slice(s, i, i + Len(t)) = t

\* s.find(t, start): the lowest 0-based index >= start where t occurs, or -1
find[s \in STRING, t \in STRING, start \in Int] ==
    IF \E i \in start..(Len(s) - Len(t)) : Slice(s, i, i + Len(t)) = t
    THEN Min({i \in start..(Len(s) - Len(t)) : Slice(s, i, i + Len(t)) = t})
    ELSE -1

Whitespace == {" "}

\* s.strip()
strip[s \in STRING] ==
    IF \A i \in 0..(Len(s) - 1) : CharAt(s, i) \in Whitespace THEN ""
    ELSE Slice(s, Min({i \in 0..(Len(s) - 1) : CharAt(s, i) \notin Whitespace}),
               Max({i \in 0..(Len(s) - 1) : CharAt(s, i) \notin Whitespace}) + 1)

\* s.split(sep) for a one-character sep: always at least one piece
split[s \in STRING, sep \in STRING] ==
    IF find[s, sep, 0] = -1 THEN <<s>>
    ELSE <<Slice(s, 0, find[s, sep, 0])>>
         \o split[Slice(s, find[s, sep, 0] + 1, Len(s)), sep]

\* sep.join(parts)
join[sep \in STRING, parts \in Seq(STRING)] ==
    IF Len(parts) = 0 THEN ""
    ELSE IF Len(parts) = 1 THEN parts[1]
    ELSE parts[1] \o sep \o join[sep, Tail(parts)]

UpperLetters == "ABCDEFGHIJKLMNOPQRSTUVWXYZ"
LowerLetters == "abcdefghijklmnopqrstuvwxyz"
Digits == "0123456789"

lower_char[c \in STRING] ==
    IF find[UpperLetters, c, 0] = -1 THEN c
    ELSE CharAt(LowerLetters, find[UpperLetters, c, 0])

\* s.lower()
lower[s \in STRING] ==
    IF Len(s) = 0 THEN ""
    ELSE lower_char[CharAt(s, 0)] \o lower[Slice(s, 1, Len(s))]

isalpha[c \in STRING] == contains[UpperLetters, c] \/ contains[LowerLetters, c]

\* str(n) for n >= 0
str[n \in Nat] ==
    IF n < 10 THEN CharAt(Digits, n)
    ELSE str[n \div 10] \o CharAt(Digits, n % 10)

(***************************************************************************)
(* urllib.parse.urlparse and urljoin, as Acme.path uses them.  A parsed    *)
(* URL is the record [scheme, netloc, path, query, fragment].  The model's *)
(* URLs hold no ';', so urlparse's params component is always ''.          *)
(***************************************************************************)

\* urllib.parse.scheme_chars
scheme_chars == UpperLetters \o LowerLetters \o Digits \o "+-."

\* urllib.parse.uses_relative and uses_netloc, cut to the schemes the model's URLs name
uses_relative == {"", "ftp", "http", "https"}
uses_netloc == {"", "ftp", "http", "https"}

ParsedUrl == [scheme : STRING, netloc : STRING, path : STRING,
              query : STRING, fragment : STRING]

\* urlsplit: whether url[:i] is a scheme, i being url.find(':')
has_scheme[url \in STRING, i \in Int] ==
    /\ i > 0
    /\ isalpha[CharAt(url, 0)]
    /\ \A k \in 0..(i - 1) : contains[scheme_chars, CharAt(url, k)]

\* urlsplit: <<scheme, rest>>
split_scheme[url \in STRING, default \in STRING] ==
    IF has_scheme[url, find[url, ":", 0]]
    THEN <<lower[Slice(url, 0, find[url, ":", 0])],
           Slice(url, find[url, ":", 0] + 1, Len(url))>>
    ELSE <<default, url>>

\* _splitnetloc(url, 2): the lowest index >= 2 of one of '/', '?', '#', or len(url)
netloc_end[url \in STRING] ==
    IF \E i \in 2..(Len(url) - 1) : CharAt(url, i) \in {"/", "?", "#"}
    THEN Min({i \in 2..(Len(url) - 1) : CharAt(url, i) \in {"/", "?", "#"}})
    ELSE Len(url)

\* urlsplit: <<netloc, rest>>
split_netloc[url \in STRING] ==
    IF startswith[url, "//"]
    THEN <<Slice(url, 2, netloc_end[url]), Slice(url, netloc_end[url], Len(url))>>
    ELSE <<"", url>>

\* url.split(sep, 1) when sep occurs in url: <<before, after>>, else <<url, "">>
split_once[url \in STRING, sep \in STRING] ==
    IF find[url, sep, 0] = -1 THEN <<url, "">>
    ELSE <<Slice(url, 0, find[url, sep, 0]), Slice(url, find[url, sep, 0] + 1, Len(url))>>

\* urlsplit, once the scheme and the netloc are known
split_rest[scheme \in STRING, netloc \in STRING, rest \in STRING] ==
    [scheme |-> scheme, netloc |-> netloc,
     path |-> split_once[split_once[rest, "#"][1], "?"][1],
     query |-> split_once[split_once[rest, "#"][1], "?"][2],
     fragment |-> split_once[rest, "#"][2]]

split_after_scheme[scheme \in STRING, rest \in STRING] ==
    split_rest[scheme, split_netloc[rest][1], split_netloc[rest][2]]

\* urlparse(url, scheme=default)
urlparse[url \in STRING, default \in STRING] ==
    split_after_scheme[split_scheme[url, default][1], split_scheme[url, default][2]]

\* urlunparse((scheme, netloc, path, '', query, fragment))
urlunparse[u \in ParsedUrl] ==
    u.scheme \o (IF u.scheme # "" THEN ":" ELSE "")
    \o (IF \/ u.netloc # ""
           \/ (u.scheme # "" /\ u.scheme \in uses_netloc /\ ~startswith[u.path, "//"])
        THEN "//" \o u.netloc \o
             (IF u.path # "" /\ ~startswith[u.path, "/"] THEN "/" ELSE "")
        ELSE "")
    \o u.path
    \o (IF u.query # "" THEN "?" \o u.query ELSE "")
    \o (IF u.fragment # "" THEN "#" \o u.fragment ELSE "")

\* the loop of urljoin that resolves '.' and '..' segments
resolve_dots[segments \in Seq(STRING), resolved \in Seq(STRING)] ==
    IF Len(segments) = 0 THEN resolved
    ELSE IF Head(segments) = ".."
    THEN resolve_dots[Tail(segments),
                      IF Len(resolved) = 0 THEN resolved
                      ELSE SubSeq(resolved, 1, Len(resolved) - 1)]
    ELSE IF Head(segments) = "."
    THEN resolve_dots[Tail(segments), resolved]
    ELSE resolve_dots[Tail(segments), Append(resolved, Head(segments))]

\* segments[1:-1] = filter(None, segments[1:-1])
filter_inner[segments \in Seq(STRING)] ==
    IF Len(segments) < 2 THEN segments
    ELSE <<segments[1]>>
         \o SelectSeq(SubSeq(segments, 2, Len(segments) - 1), LAMBDA x : x # "")
         \o <<segments[Len(segments)]>>

\* base_parts: bpath.split('/') without its last item unless that is ''
base_parts[bp \in Seq(STRING)] ==
    IF bp[Len(bp)] # "" THEN SubSeq(bp, 1, Len(bp) - 1) ELSE bp

\* the resolved path of urljoin, from the segments to resolve
resolved_path[segments \in Seq(STRING)] ==
    join["/", IF segments[Len(segments)] \in {".", ".."}
              THEN Append(resolve_dots[segments, <<>>], "")
              ELSE resolve_dots[segments, <<>>]]

or_slash[p \in STRING] == IF p = "" THEN "/" ELSE p

\* urljoin, once base and url are parsed
urljoin_parsed[url \in STRING, b \in ParsedUrl, u \in ParsedUrl] ==
    IF u.scheme # b.scheme \/ u.scheme \notin uses_relative THEN url
    ELSE IF u.scheme \in uses_netloc /\ u.netloc # "" THEN urlunparse[u]
    ELSE IF u.path = ""
    THEN urlunparse[[scheme |-> u.scheme,
                     netloc |-> IF u.scheme \in uses_netloc THEN b.netloc ELSE u.netloc,
                     path |-> b.path,
                     query |-> IF u.query = "" THEN b.query ELSE u.query,
                     fragment |-> u.fragment]]
    ELSE urlunparse[[scheme |-> u.scheme,
                     netloc |-> IF u.scheme \in uses_netloc THEN b.netloc ELSE u.netloc,
                     path |-> or_slash[resolved_path[
                                  IF startswith[u.path, "/"]
                                  THEN split[u.path, "/"]
                                  ELSE filter_inner[base_parts[split[b.path, "/"]]
                                                    \o split[u.path, "/"]]]],
                     query |-> u.query,
                     fragment |-> u.fragment]]

\* urljoin(base, url)
urljoin[base \in STRING, url \in STRING] ==
    IF url = "" THEN base
    ELSE IF base = "" THEN url
    ELSE urljoin_parsed[url, urlparse[base, ""],
                        urlparse[url, urlparse[base, ""].scheme]]

\* the configured base URL, self.url
BaseUrl == "https://ca.example/"

Returned(v) == [raised |-> "", value |-> v]
Raised(e) == [raised |-> e, value |-> None]

\* Acme.path(path): None.startswith raises AttributeError
path(p) ==
    IF p = None THEN Raised("AttributeError")
    ELSE Returned(urljoin[BaseUrl,
             IF startswith[p, "http"] THEN urlparse[p, ""].path ELSE p])

(***************************************************************************)
(* _get_link(header, type).  link.index('>') raises ValueError when the    *)
(* selected piece holds no '>'.                                            *)
(***************************************************************************)

\* link[1:link.index('>')]
link_url[link \in STRING] ==
    IF find[link, ">", 0] = -1 THEN Raised("ValueError")
    ELSE Returned(IF find[link, ">", 0] >= 1 THEN Slice(link, 1, find[link, ">", 0])
                  ELSE "")

\* the loop over links
get_link_loop[links \in Seq(STRING), type \in STRING] ==
    IF Len(links) = 0 THEN Returned(None)
    ELSE IF contains[strip[Head(links)], type] THEN link_url[strip[Head(links)]]
    ELSE get_link_loop[Tail(links), type]

_get_link_without_default(header, type) ==
    IF header = None THEN Raised("AttributeError")
    ELSE get_link_loop[split[header, ","], type]

_get_link(header, type) ==
    get_link_loop[split[IF header \in {None, ""} THEN "" ELSE header, ","], type]

(***************************************************************************)
(* Responses.  A response is [status_code, Location, Link, body]; a header *)
(* the response lacks is None (headers.get).  body is [content, json]:     *)
(* content is response.content and json is what response.json() does,      *)
(* return the parsed document or raise.  Which exception the parser raises *)
(* for a body it cannot read is the library's choice among the kinds       *)
(* get_authorization names.                                                *)
(***************************************************************************)

JsonFailures == {"ValueError", "TypeError", "AttributeError"}

NoResponse == [none |-> TRUE]

(***************************************************************************)
(* What a call raises: the exception class and the constructor's arguments.*)
(***************************************************************************)

NoExc == [cls |-> ""]

\* AcmeError(response)
AcmeError_response(r) == [cls |-> "AcmeError", arg |-> "response", response |-> r]

\* AcmeError("Invalid JSON response. {}".format(e))
AcmeError_message(e) == [cls |-> "AcmeError", arg |-> "message", cause |-> e]

\* AcmeError(e)
AcmeError_exception(e) == [cls |-> "AcmeError", arg |-> "exception", cause |-> e]

\* AccountAlreadyExistsError(response, uri)
AccountAlreadyExistsError(r, uri) ==
    [cls |-> "AccountAlreadyExistsError", arg |-> "response", response |-> r, uri |-> uri]

\* an exception no handler of acme.py catches
Uncaught(e) == [cls |-> e, arg |-> "none"]

NoValue == [type |-> "none"]

Raise(e) == [exc |-> e, value |-> NoValue]
Return(v) == [exc |-> NoExc, value |-> v]

\* _json(response)
_json(response) ==
    LET j == response.body.json
    IN  IF j.raised = "" THEN Return([type |-> "json", document |-> j.value])
        ELSE IF j.raised = "ValueError" THEN Raise(AcmeError_message(j.raised))
        ELSE Raise(Uncaught(j.raised))

\* the namedtuples
RegistrationResult(contents, uri, terms) ==
    [type |-> "RegistrationResult", contents |-> contents, uri |-> uri, terms |-> terms]
NewAuthorizationResult(contents, uri) ==
    [type |-> "NewAuthorizationResult", contents |-> contents, uri |-> uri]
IssuanceResult(certificate, location, intermediate) ==
    [type |-> "IssuanceResult", certificate |-> certificate, location |-> location,
     intermediate |-> intermediate]

True == [type |-> "bool", v |-> TRUE]

\* the status codes the source names
Created == 201
Conflict == 409

\* str(response.status_code).startswith('2')
status_is_200(response) == response.status_code = 200

status_2xx(response) == startswith[str[response.status_code], "2"]

(***************************************************************************)
(* What the CA answers and what the caller passes.                         *)
(***************************************************************************)

Nonces == {None, "nonce-1"}

Statuses == {102, 120, 200, 201, 202, 204, 299, 302, 400, 409, 500}

Locations == {None, "https://ca.example/acme/reg/1", "https://cdn.example/acme/reg/2"}

JsonDocument == [content |-> "{\"status\": \"valid\"}", json |-> Returned("status: valid")]
Unparsable == {[content |-> "<html>", json |-> Raised(e)] : e \in JsonFailures}
Certificate == [content |-> "DER certificate", json |-> Raised("ValueError")]
ChainContents == {"DER issuer", ""}

\* Link headers: entries <url>;rel="type" joined by ", "
LinkUrls == {"https://ca.example/acme/issuer-cert",
             "https://cdn.example/signup/terms",
             "https://ca.example/a,b"}
LinkRels == {"up", "terms-of-service"}
LinkEntries == [url : LinkUrls, rel : LinkRels]
MaxEntries == 2
LinkEntrySeqs == UNION {[1..n -> LinkEntries] : n \in 1..MaxEntries}

EntryText(e) == "<" \o e.url \o ">;rel=\"" \o e.rel \o "\""
HeaderText(es) == join[", ", [i \in 1..Len(es) |-> EntryText(es[i])]]

WellFormedLinks == {HeaderText(es) : es \in LinkEntrySeqs}
OtherLinks == {None, "", "<>;rel=\"up\"", "<https://ca.example/acme/issuer-cert;rel=\"up\"",
               "terms-of-service"}
LinkHeaders == WellFormedLinks \cup OtherLinks

Responses(statuses, locations, links, bodies) ==
    [status_code : statuses, Location : locations, Link : links, body : bodies]

\* the URIs a caller passes to validate_authorization and get_authorization
Uris == {"https://ca.example/acme/authz/1",
         "https://attacker.example/acme/new-authz",
         "http://attacker.example/acme/authz/1?x=1",
         "HTTPS://attacker.example/acme/authz/1",
         "//attacker.example/acme/authz/1",
         "https://attacker.example//evil.example/x",
         "https://attacker.example",
         "/acme/authz/1", "acme/authz/1", "../authz/1", "httpfoo/x", ""}

(***************************************************************************)
(* _get_link and Acme.path on every argument the model passes them, each   *)
(* evaluated once.                                                         *)
(***************************************************************************)

RelTypes == {"up", "terms-of-service", "next"}

links == [header \in LinkHeaders, type \in RelTypes |-> _get_link(header, type)]

Paths == Uris \cup Locations \cup {None} \cup
         {"/directory", "/acme/new-reg", "/acme/new-authz", "/acme/new-cert",
          "ftp://attacker.example/acme/authz/1"}

paths == [p \in Paths |-> path(p)]

(***************************************************************************)
(* What each operation does with the response to its primary request:      *)
(* [account_uri, exc, value], account_uri being self.account.uri after it. *)
(***************************************************************************)

\* register, lines 55-56: self.account.uri after the call
account_uri_unset(uri0, response) == uri0

account_uri_set_on_conflict(uri0, response) ==
    IF response.status_code \in {Created, Conflict} THEN response.Location ELSE uri0

account_uri_after(uri0, response) ==
    IF response.status_code = Created THEN response.Location ELSE uri0

\* register, lines 66-68: what a status other than 201 raises
register_error_always_exists(response) ==
    AccountAlreadyExistsError(response, response.Location)

register_error(response) ==
    IF response.status_code = Conflict
    THEN AccountAlreadyExistsError(response, response.Location)
    ELSE AcmeError_response(response)

\* register, lines 54-68
register_response(uri0, response) ==
    [account_uri |-> account_uri_after(uri0, response)] @@
    IF response.status_code = Created
    THEN IF links[response.Link, "terms-of-service"].raised # ""
         THEN Raise(Uncaught(links[response.Link, "terms-of-service"].raised))
         ELSE IF _json(response).exc # NoExc
         THEN _json(response)
         ELSE Return(RegistrationResult(_json(response).value.document,
                                        response.Location,
                                        links[response.Link, "terms-of-service"].value))
    ELSE Raise(register_error(response))

\* get_registration, lines 80-82
get_registration_response(response) ==
    IF status_2xx(response) THEN _json(response)
    ELSE Raise(AcmeError_response(response))

\* update_registration, lines 94-96
update_registration_response(response) ==
    IF status_2xx(response) THEN Return(True)
    ELSE Raise(AcmeError_response(response))

\* new_authorization, lines 109-111
new_authorization_response(response) ==
    IF response.status_code = Created
    THEN LET contents == _json(response)
         IN  IF contents.exc # NoExc THEN contents
             ELSE Return(NewAuthorizationResult(contents.value.document, response.Location))
    ELSE Raise(AcmeError_response(response))

\* validate_authorization, lines 125-127
validate_authorization_response(response) ==
    IF status_2xx(response) THEN Return(True)
    ELSE Raise(AcmeError_response(response))

\* (a status check before the body is read, as get_registration has)
get_authorization_checking_status(response) ==
    IF status_2xx(response) THEN _json(response)
    ELSE Raise(AcmeError_response(response))

\* get_authorization, lines 134-137
get_authorization_response(response) ==
    LET j == response.body.json
    IN  IF j.raised = "" THEN Return([type |-> "json", document |-> j.value])
        ELSE IF j.raised \in {"ValueError", "TypeError", "AttributeError"}
        THEN Raise(AcmeError_exception(j.raised))
        ELSE Raise(Uncaught(j.raised))

\* issue_certificate, lines 147-158.  fetched is the URL handed to requests.get for
\* the issuer certificate (None when there is no such request) and chain_content the
\* content of the response to it.
issue_certificate_response(response, chain_content) ==
    IF response.status_code = Created
    THEN LET chain == links[response.Link, "up"]
         IN  IF chain.raised # ""
             THEN [fetched |-> None] @@ Raise(Uncaught(chain.raised))
             ELSE IF chain.value \notin {None, ""}
             THEN [fetched |-> chain.value] @@
                  Return(IssuanceResult(response.body.content, response.Location,
                                        chain_content))
             ELSE [fetched |-> None] @@
                  Return(IssuanceResult(response.body.content, response.Location,
                                        chain.value))
    ELSE [fetched |-> None] @@ Raise(AcmeError_response(response))

(***************************************************************************)
(* Requests.  An entry of sent is [method, url, headers, data, content,    *)
(* replay]: headers are the HTTP headers of the request, data the signed   *)
(* body of a POST, content the content of the response the request got and *)
(* replay the Replay-Nonce header of that response.                        *)
(***************************************************************************)

\* line 16, the version left out
UserAgent == "manuale (https://github.com/veeti/manuale)"
\* an empty dict, and None where the code reads "x or {}" or "if x:"
Empty == [k \in {} |-> None]
ContentType == "Content-Type" :> "application/json"
Accept == "Accept" :> "application/pkix-cert"

\* d.update(other)
update(d, other) == other @@ d

\* lines 161-163 and 167-170 without the copy: _headers is DEFAULT_HEADERS itself
update_default_headers(defaults, updates) ==
    [_headers |-> update(defaults, updates),
     DEFAULT_HEADERS |-> update(defaults, updates)]

\* lines 161-163 and 167-170: _headers = DEFAULT_HEADERS.copy(), then the updates of
\* _headers.  [_headers, DEFAULT_HEADERS]: the headers of the request and what
\* DEFAULT_HEADERS holds afterwards.
copy_and_update(defaults, updates) ==
    [_headers |-> update(defaults, updates), DEFAULT_HEADERS |-> defaults]

\* a Replay-Nonce value: value is the header's text (None when the response has no
\* such header), fetch the number of the GET /directory whose response it is from
Replay(fetch, value) == [fetch |-> fetch, value |-> value]
NoReplay == Replay(0, None)
NoData == [none |-> TRUE]

\* Acme.get(path, headers): requests.get(self.path(path), headers=_headers)
get(defaults, url, headers, content) ==
    [method |-> "GET", url |-> url,
     headers |-> copy_and_update(defaults, headers)._headers,
     data |-> NoData, content |-> content, replay |-> NoReplay]

\* Acme.post(path, body, headers): requests.post(self.path(path), data=body, ...)
post(defaults, url, body, headers, content) ==
    [method |-> "POST", url |-> url,
     headers |-> copy_and_update(defaults, update(ContentType, headers))._headers,
     data |-> body, content |-> content, replay |-> NoReplay]

\* DEFAULT_HEADERS after Acme.get and after Acme.post
after_get(defaults, headers) == copy_and_update(defaults, headers).DEFAULT_HEADERS
after_post(defaults, headers) ==
    copy_and_update(defaults, update(ContentType, headers)).DEFAULT_HEADERS

\* line 151: requests.get(chain, headers=DEFAULT_HEADERS)
requests_get(defaults, url, content) ==
    [method |-> "GET", url |-> url, headers |-> defaults,
     data |-> NoData, content |-> content, replay |-> NoReplay]

\* get_nonce: self.get('/directory'), whose response carries replay; the call returns
\* response.headers.get('Replay-Nonce'), the replay of this request
get_nonce(defaults, replay) ==
    [get(defaults, paths["/directory"].value, Empty, "") EXCEPT !.replay = replay]

\* generate_header(self.key), line 36
generate_header == [jwk |-> "account.key"]

\* (the nonce of one earlier fetch, whatever get_nonce returned)
get_headers_with_first_nonce(nonce) ==
    [header |-> generate_header,
     protected_header |-> update(generate_header, [nonce |-> Replay(1, "nonce-1")])]

\* (an empty nonce when the response had no Replay-Nonce)
get_headers_with_empty_nonce(nonce) ==
    [header |-> generate_header,
     protected_header |->
         update(generate_header,
                [nonce |-> IF nonce.value = None THEN Replay(nonce.fetch, "")
                           ELSE nonce])]

\* get_headers, lines 36-39, nonce being what get_nonce returned
get_headers(nonce) ==
    [header |-> generate_header,
     protected_header |-> update(generate_header, [nonce |-> nonce])]

\* sign_request(self.key, header, protected_header, payload): the body of the POST
sign_request(headers, payload) ==
    [header |-> headers.header, protected |-> headers.protected_header,
     payload |-> payload]

\* (the caller's own 'resource' entry kept)
update_registration_setdefault(params) == update([resource |-> "reg"], params)

\* update_registration, lines 88-89: params = params or {}; params['resource'] = 'reg'
update_registration_params(params) == update(params, [resource |-> "reg"])

(***************************************************************************)
(* The operations.  call is [op, arg, before, response, exc, value]:       *)
(* before is self.account.uri when the call began, response the response   *)
(* to the primary request (NoResponse if none was received), exc what the  *)
(* call raised (NoExc if it returned) and value what it returned.          *)
(***************************************************************************)

Idle == [op |-> "idle"]

Call(op, arg, response, r) ==
    [op |-> op, arg |-> arg, before |-> account_uri, response |-> response,
     exc |-> r.exc, value |-> r.value]

\* how many nonce fetches a run of the model follows
MaxFetches == 2

\* what a caller passes to update_registration
Params == {Empty,
           [contact |-> <<"mailto:admin@example.org">>],
           [agreement |-> "https://cdn.example/signup/terms"],
           [resource |-> "new-authz", agreement |-> "https://cdn.example/signup/terms"]}

Init ==
    /\ account_uri = None
    /\ sent = <<>>
    /\ call = Idle
    /\ fetches = 0
    /\ signed = <<>>
    /\ DEFAULT_HEADERS = "User-Agent" :> UserAgent

\* (the POST alone, without get_headers' GET /directory)
signed_requests_without_fetch(p, payload, headers, value, content) ==
    IF paths[p].raised # "" THEN <<>>
    ELSE <<post(DEFAULT_HEADERS, paths[p].value,
                sign_request(get_headers(Replay(fetches + 1, value)), payload),
                headers, content)>>

\* The requests of an operation that signs payload and posts it to p: get_headers'
\* GET /directory, answered with nonce value, then the POST, answered with content.
\* self.path(p) raising leaves the GET alone.
signed_requests(p, payload, headers, value, content) ==
    <<get_nonce(DEFAULT_HEADERS, Replay(fetches + 1, value))>> \o
    (IF paths[p].raised # "" THEN <<>>
     ELSE <<post(after_get(DEFAULT_HEADERS, Empty), paths[p].value,
                 sign_request(get_headers(Replay(fetches + 1, value)), payload),
                 headers, content)>>)

\* fetches, signed and DEFAULT_HEADERS after those requests
signed_operation(requests, headers) ==
    /\ fetches' = fetches + 1
    /\ signed' = IF Len(requests) = 1 THEN signed
                 ELSE Append(signed, requests[2].data.protected.nonce.fetch)
    /\ DEFAULT_HEADERS' = IF Len(requests) = 1 THEN after_get(DEFAULT_HEADERS, Empty)
                          ELSE after_post(after_get(DEFAULT_HEADERS, Empty), headers)

register ==
    /\ call = Idle
    /\ fetches < MaxFetches
    /\ \E value \in Nonces,
          response \in Responses(Statuses, Locations, LinkHeaders,
                                 {JsonDocument} \cup Unparsable) :
          /\ sent' = signed_requests("/acme/new-reg",
                                     [resource |-> "new-reg",
                                      contact |-> <<"mailto:admin@example.org">>],
                                     Empty, value, response.body.content)
          /\ signed_operation(sent', Empty)
          /\ account_uri' = register_response(account_uri, response).account_uri
          /\ call' = Call("register", "admin@example.org", response,
                          register_response(account_uri, response))

\* get_registration posts to self.account.uri, which path rejects with
\* AttributeError while it is None
get_registration ==
    /\ call = Idle
    /\ fetches < MaxFetches
    /\ UNCHANGED account_uri
    /\ \E value \in Nonces :
          IF paths[account_uri].raised # ""
          THEN /\ sent' = signed_requests(account_uri, [resource |-> "reg"], Empty,
                                          value, "")
               /\ signed_operation(sent', Empty)
               /\ call' = Call("get_registration", None, NoResponse,
                               Raise(Uncaught(paths[account_uri].raised)))
          ELSE \E response \in Responses(Statuses, {None}, {None},
                                         {JsonDocument} \cup Unparsable) :
                  /\ sent' = signed_requests(account_uri, [resource |-> "reg"], Empty,
                                             value, response.body.content)
                  /\ signed_operation(sent', Empty)
                  /\ call' = Call("get_registration", None, response,
                                  get_registration_response(response))

\* update_registration posts to self.account.uri too
update_registration ==
    /\ call = Idle
    /\ fetches < MaxFetches
    /\ UNCHANGED account_uri
    /\ \E value \in Nonces, params \in Params :
          IF paths[account_uri].raised # ""
          THEN /\ sent' = signed_requests(account_uri,
                                          update_registration_params(params), Empty,
                                          value, "")
               /\ signed_operation(sent', Empty)
               /\ call' = Call("update_registration", params, NoResponse,
                               Raise(Uncaught(paths[account_uri].raised)))
          ELSE \E response \in Responses(Statuses, {None}, {None}, {JsonDocument}) :
                  /\ sent' = signed_requests(account_uri,
                                             update_registration_params(params), Empty,
                                             value, response.body.content)
                  /\ signed_operation(sent', Empty)
                  /\ call' = Call("update_registration", params, response,
                                  update_registration_response(response))

new_authorization ==
    /\ call = Idle
    /\ fetches < MaxFetches
    /\ UNCHANGED account_uri
    /\ \E value \in Nonces,
          response \in Responses(Statuses, Locations, {None},
                                 {JsonDocument} \cup Unparsable) :
          /\ sent' = signed_requests("/acme/new-authz",
                                     [resource |-> "new-authz",
                                      identifier |-> [type |-> "dns",
                                                      value |-> "example.org"]],
                                     Empty, value, response.body.content)
          /\ signed_operation(sent', Empty)
          /\ call' = Call("new_authorization", "example.org", response,
                          new_authorization_response(response))

validate_authorization ==
    /\ call = Idle
    /\ fetches < MaxFetches
    /\ UNCHANGED account_uri
    /\ \E uri \in Uris, value \in Nonces,
          response \in Responses(Statuses, {None}, {None}, {JsonDocument}) :
          /\ sent' = signed_requests(uri,
                                     [resource |-> "challenge", type |-> "dns-01",
                                      keyAuthorization |-> "token.thumbprint"],
                                     Empty, value, response.body.content)
          /\ signed_operation(sent', Empty)
          /\ call' = Call("validate_authorization", uri, response,
                          validate_authorization_response(response))

\* get_authorization(uri): a caller polling NewAuthorizationResult.uri passes None
\* when the CA sent no Location
get_authorization ==
    /\ call = Idle
    /\ UNCHANGED <<account_uri, fetches, signed>>
    /\ \E uri \in Uris \cup {None} :
          IF paths[uri].raised # ""
          THEN /\ sent' = <<>>
               /\ DEFAULT_HEADERS' = after_get(DEFAULT_HEADERS, Empty)
               /\ call' = Call("get_authorization", uri, NoResponse,
                               Raise(Uncaught(paths[uri].raised)))
          ELSE \E response \in Responses(Statuses, {None}, {None},
                                         {JsonDocument} \cup Unparsable) :
                  /\ sent' = <<get(DEFAULT_HEADERS, paths[uri].value, Empty,
                                   response.body.content)>>
                  /\ DEFAULT_HEADERS' = after_get(DEFAULT_HEADERS, Empty)
                  /\ call' = Call("get_authorization", uri, response,
                                  get_authorization_response(response))

issue_certificate ==
    /\ call = Idle
    /\ fetches < MaxFetches
    /\ UNCHANGED account_uri
    /\ \E value \in Nonces, chain_content \in ChainContents,
          response \in Responses(Statuses, Locations, LinkHeaders, {Certificate}) :
          LET r == issue_certificate_response(response, chain_content)
          IN  /\ sent' = signed_requests("/acme/new-cert",
                                         [resource |-> "new-cert", csr |-> "CSR"],
                                         Accept, value, response.body.content)
                         \o (IF r.fetched = None THEN <<>>
                             ELSE <<requests_get(
                                        after_post(after_get(DEFAULT_HEADERS, Empty),
                                                   Accept),
                                        r.fetched, chain_content)>>)
              /\ signed_operation(SubSeq(sent', 1, 2), Accept)
              /\ call' = Call("issue_certificate", "CSR", response, r)

\* the call returns or raises to the caller, who may then make the next call
call_ends ==
    /\ call # Idle
    /\ call' = Idle
    /\ sent' = <<>>
    /\ UNCHANGED <<account_uri, fetches, signed, DEFAULT_HEADERS>>

Next ==
    \/ register
    \/ get_registration
    \/ update_registration
    \/ new_authorization
    \/ validate_authorization
    \/ get_authorization
    \/ issue_certificate
    \/ call_ends

Spec == Init /\ [][Next]_vars

(***************************************************************************)
(* Acme.path and _get_link on their own: Init draws the arguments and the  *)
(* one step applies the function.                                          *)
(***************************************************************************)

InitFn ==
    /\ account_uri = None
    /\ sent = <<>>
    /\ fetches = 0
    /\ signed = <<>>
    /\ DEFAULT_HEADERS = "User-Agent" :> UserAgent
    /\ call \in {[op |-> "apply", fn |-> "path", args |-> <<p>>] : p \in Paths}
               \cup {[op |-> "apply", fn |-> "_get_link", args |-> <<h, t>>] :
                        h \in LinkHeaders, t \in RelTypes}

apply_path ==
    /\ call.op = "apply" /\ call.fn = "path"
    /\ call' = [op |-> "path", args |-> call.args, result |-> path(call.args[1])]
    /\ UNCHANGED <<account_uri, sent, fetches, signed, DEFAULT_HEADERS>>

apply_get_link ==
    /\ call.op = "apply" /\ call.fn = "_get_link"
    /\ call' = [op |-> "_get_link", args |-> call.args,
                result |-> _get_link(call.args[1], call.args[2])]
    /\ UNCHANGED <<account_uri, sent, fetches, signed, DEFAULT_HEADERS>>

NextFn == apply_path \/ apply_get_link

SpecFn == InitFn /\ [][NextFn]_vars

(***************************************************************************)
(* Two callers on one Acme instance, each call of a signed operation taken *)
(* step by step: get_headers (with its GET /directory), then sign_request  *)
(* and self.post, then the return.  call[c] holds the call of caller c and *)
(* its locals, headers being the (header, protected_header) pair that      *)
(* get_headers returned to it; sent holds the requests of both callers in  *)
(* the order they were issued, each with its caller.                       *)
(***************************************************************************)

Callers == {"A", "B"}
ThreadUris == {"https://ca.example/acme/authz/1", "/acme/authz/1"}
ThreadResponses == Responses({200, 201, 400}, {None}, {None}, {JsonDocument})
NoHeaders == [header |-> Empty, protected_header |-> Empty]
Waiting == [pc |-> "idle", op |-> "none", arg |-> None, headers |-> NoHeaders,
            response |-> NoResponse, exc |-> NoExc, value |-> NoValue]

\* (the pair the instance got last, whoever asked for it)
headers_fetched_last(locals, c) ==
    locals[CHOOSE d \in Callers :
              /\ locals[d].pc = "fetched"
              /\ \A e \in Callers :
                    locals[e].pc = "fetched" =>
                        locals[e].headers.protected_header.nonce.fetch
                            <= locals[d].headers.protected_header.nonce.fetch].headers

\* header, protected_header: locals of the call, lines 102 and 117
local_headers(locals, c) == locals[c].headers

InitThreads ==
    /\ account_uri = None
    /\ sent = <<>>
    /\ call = [c \in Callers |-> Waiting]
    /\ fetches = 0
    /\ signed = <<>>
    /\ DEFAULT_HEADERS = "User-Agent" :> UserAgent

\* lines 102 and 117: header, protected_header = self.get_headers()
calls_get_headers(c) ==
    /\ call[c].pc = "idle"
    /\ fetches < MaxFetches
    /\ \E value \in Nonces,
          started \in {[op |-> "new_authorization", arg |-> "example.org"]} \cup
                      {[op |-> "validate_authorization", arg |-> uri] :
                          uri \in ThreadUris} :
          /\ sent' = Append(sent, [caller |-> c] @@
                                  get_nonce(DEFAULT_HEADERS, Replay(fetches + 1, value)))
          /\ call' = [call EXCEPT ![c] =
                         [Waiting EXCEPT !.pc = "fetched", !.op = started.op,
                                         !.arg = started.arg,
                                         !.headers = get_headers(Replay(fetches + 1,
                                                                        value))]]
    /\ fetches' = fetches + 1
    /\ DEFAULT_HEADERS' = after_get(DEFAULT_HEADERS, Empty)
    /\ UNCHANGED <<account_uri, signed>>

\* lines 103-111 and 118-127: sign_request, self.post and the reading of the response
calls_post(c) ==
    /\ call[c].pc = "fetched"
    /\ \E response \in ThreadResponses :
          /\ sent' = Append(sent,
                 [caller |-> c] @@
                 post(DEFAULT_HEADERS,
                      paths[IF call[c].op = "new_authorization" THEN "/acme/new-authz"
                            ELSE call[c].arg].value,
                      sign_request(local_headers(call, c),
                                   IF call[c].op = "new_authorization"
                                   THEN [resource |-> "new-authz",
                                         identifier |-> [type |-> "dns",
                                                         value |-> call[c].arg]]
                                   ELSE [resource |-> "challenge", type |-> "dns-01",
                                         keyAuthorization |-> "token.thumbprint"]),
                      Empty, response.body.content))
          /\ call' = [call EXCEPT ![c] =
                         (IF call[c].op = "new_authorization"
                          THEN new_authorization_response(response)
                          ELSE validate_authorization_response(response)) @@
                         [@ EXCEPT !.pc = "posted", !.response = response]]
    /\ signed' = Append(signed, sent'[Len(sent')].data.protected.nonce.fetch)
    /\ DEFAULT_HEADERS' = after_post(DEFAULT_HEADERS, Empty)
    /\ UNCHANGED <<account_uri, fetches>>

\* the call returns or raises to caller c
call_returns(c) ==
    /\ call[c].pc = "posted"
    /\ call' = [call EXCEPT ![c] = Waiting]
    /\ UNCHANGED <<account_uri, sent, fetches, signed, DEFAULT_HEADERS>>

NextThreads ==
    \/ \E c \in Callers : calls_get_headers(c)
    \/ \E c \in Callers : calls_post(c)
    \/ \E c \in Callers : call_returns(c)

SpecThreads == InitThreads /\ [][NextThreads]_vars

(***************************************************************************)
(* The claims.                                                             *)
(***************************************************************************)

Status == call.response.status_code

\* C1: after a register call answered 201, Account.uri is the response's Location
\* and the RegistrationResult the call returns has that same uri.
C1_RegisterCreated ==
    (call.op = "register" /\ Status = Created) =>
        /\ account_uri = call.response.Location
        /\ call.exc = NoExc =>
              /\ call.value.type = "RegistrationResult"
              /\ call.value.uri = call.response.Location

C1_Witness ==
    /\ call.op = "register" /\ Status = Created
    /\ call.before = None
    /\ call.exc = NoExc
    /\ call.value.uri = "https://ca.example/acme/reg/1"
    /\ account_uri = "https://ca.example/acme/reg/1"

\* C2: a register call answered 409 raises AccountAlreadyExistsError built with the
\* response's Location as its uri, and leaves Account.uri as it was before the call.
C2_RegisterConflict ==
    (call.op = "register" /\ Status = Conflict) =>
        /\ call.exc.cls = "AccountAlreadyExistsError"
        /\ call.exc.uri = call.response.Location
        /\ account_uri = call.before

C2_Witness ==
    /\ call.op = "register" /\ Status = Conflict
    /\ call.before = "https://ca.example/acme/reg/1"
    /\ call.response.Location = "https://cdn.example/acme/reg/2"
    /\ call.exc.cls = "AccountAlreadyExistsError"
    /\ account_uri = "https://ca.example/acme/reg/1"

\* C3: a register call answered with a status other than 201 and 409 raises the
\* generic AcmeError built with the response itself, and returns nothing.
C3_RegisterOtherStatus ==
    (call.op = "register" /\ Status \notin {Created, Conflict}) =>
        /\ call.exc = AcmeError_response(call.response)
        /\ call.exc.cls # "AccountAlreadyExistsError"
        /\ call.value = NoValue

C3_Witness ==
    /\ call.op = "register" /\ Status = 500
    /\ call.exc.cls = "AcmeError"
    /\ call.exc.response = call.response

\* C4: get_registration, update_registration and validate_authorization take the
\* success branch for exactly the statuses whose decimal text starts with '2' and
\* raise AcmeError(response) for every other status; register, new_authorization and
\* issue_certificate return a result only for 201 and raise AcmeError(response) for
\* every other status that starts with '2'.
Lenient == {"get_registration", "update_registration", "validate_authorization"}
Strict == {"register", "new_authorization", "issue_certificate"}
TextStartsWith2(n) == CharAt(str[n], 0) = "2"

C4_StatusClassification ==
    /\ (call.op \in Lenient /\ call.response # NoResponse) =>
          IF TextStartsWith2(Status)
          THEN /\ call.exc # AcmeError_response(call.response)
               /\ call.op # "get_registration" =>
                     (call.exc = NoExc /\ call.value = True)
               /\ (call.op = "get_registration" /\ call.response.body.json.raised = "") =>
                     /\ call.exc = NoExc
                     /\ call.value.document = call.response.body.json.value
          ELSE call.exc = AcmeError_response(call.response)
    /\ call.op \in Strict =>
          /\ call.exc = NoExc => Status = Created
          /\ (Status # Created /\ TextStartsWith2(Status)) =>
                call.exc = AcmeError_response(call.response)

C4_Witness ==
    /\ call.op = "validate_authorization"
    /\ Status = 299
    /\ call.exc = NoExc /\ call.value = True

\* C5: for every str given to Acme.path, the resolved URL has the scheme and host of
\* the base URL, and of an absolute input only the path component is kept.
BaseParsed == urlparse[BaseUrl, ""]
SameOrigin(url) ==
    /\ urlparse[url, ""].scheme = BaseParsed.scheme
    /\ urlparse[url, ""].netloc = BaseParsed.netloc
IsAbsolute(url) == urlparse[url, ""].scheme # "" /\ urlparse[url, ""].netloc # ""

C5_PathKeepsBaseOrigin ==
    (call.op = "path" /\ call.args[1] # None) =>
        /\ call.result.raised = ""
        /\ SameOrigin(call.result.value)
        /\ IsAbsolute(call.args[1]) =>
              urlparse[call.result.value, ""].path
                  = or_slash[urlparse[call.args[1], ""].path]

\* C6: every request of every call goes to the scheme and host of the base URL.
C6_RequestsStayOnBase ==
    \A i \in 1..Len(sent) : SameOrigin(sent[i].url)

\* C7: for a Link header made of entries <url>;rel="type", _get_link returns the url of
\* the first entry whose text contains the requested type.
Matching(es, type) == {i \in 1..Len(es) : contains[EntryText(es[i]), type]}

C7_GetLinkFirstMatch ==
    call.op = "_get_link" =>
        \A es \in LinkEntrySeqs :
            (call.args[1] = HeaderText(es) /\ Matching(es, call.args[2]) # {}) =>
                call.result = Returned(es[Min(Matching(es, call.args[2]))].url)

\* C8: for a Link header (a missing one and an empty one included) no entry of which
\* contains the requested type, _get_link returns None: it neither raises nor returns ''.
NoEntryMatches(header, type) ==
    IF header \in WellFormedLinks
    THEN \A es \in LinkEntrySeqs : header = HeaderText(es) => Matching(es, type) = {}
    ELSE header = None \/ ~contains[header, type]

C8_GetLinkAbsent ==
    (call.op = "_get_link" /\ NoEntryMatches(call.args[1], call.args[2])) =>
        call.result = Returned(None)

C8_Witness ==
    /\ call.op = "_get_link"
    /\ call.args = <<"<https://ca.example/acme/issuer-cert>;rel=\"up\"", "terms-of-service">>
    /\ call.result = Returned(None)

\* C9: after an issue_certificate call answered 201, if the Link header has an entry
\* with rel="up" the result's intermediate is the content fetched by a GET of that
\* entry's url; if it has none, intermediate is None and no request follows the POST.
UpEntries(es) == {i \in 1..Len(es) : es[i].rel = "up"}

C9_IntermediateFromUp ==
    (call.op = "issue_certificate" /\ Status = Created) =>
        /\ \A es \in LinkEntrySeqs :
              call.response.Link = HeaderText(es) =>
                  IF UpEntries(es) # {}
                  THEN /\ call.exc = NoExc
                       /\ Len(sent) = 3
                       /\ sent[3].method = "GET"
                       /\ sent[3].url = es[Min(UpEntries(es))].url
                       /\ call.value.intermediate = sent[3].content
                  ELSE /\ call.exc = NoExc
                       /\ call.value.intermediate = None
                       /\ Len(sent) = 2
        /\ call.response.Link \in {None, ""} =>
              /\ call.exc = NoExc
              /\ call.value.intermediate = None
              /\ Len(sent) = 2

\* C10: where a call needs the body as JSON and reads it (register and
\* new_authorization on 201, get_registration on 2xx, get_authorization), a body the
\* parser fails on, with whatever exception, makes the call raise AcmeError.
ReadsJson ==
    \/ call.op = "get_authorization" /\ call.response # NoResponse
    \/ call.op = "new_authorization" /\ Status = Created
    \/ call.op = "get_registration" /\ call.response # NoResponse
           /\ TextStartsWith2(Status)
    \/ call.op = "register" /\ Status = Created
           /\ _get_link(call.response.Link, "terms-of-service").raised = ""

C10_ParseFailureIsAcmeError ==
    (ReadsJson /\ call.response.body.json.raised # "") => call.exc.cls = "AcmeError"

\* C11: in every call, each signed POST directly follows a GET /directory of the same
\* call and its protected header holds one nonce, the Replay-Nonce that GET returned;
\* over the whole run no two signed requests hold the nonce of the same fetch.
Directory == paths["/directory"].value

C11_FreshNoncePerSignedRequest ==
    /\ \A i \in 1..Len(sent) :
          sent[i].method = "POST" =>
              /\ i > 1
              /\ sent[i - 1].method = "GET" /\ sent[i - 1].url = Directory
              /\ "nonce" \in DOMAIN sent[i].data.protected
              /\ sent[i].data.protected.nonce = sent[i - 1].replay
              /\ sent[i].data.protected.nonce.fetch = fetches
    /\ \A i, j \in 1..Len(signed) : signed[i] = signed[j] => i = j

C11_Witness ==
    /\ call.op = "validate_authorization"
    /\ Len(sent) = 2
    /\ sent[2].data.protected.nonce = Replay(2, "nonce-1")
    /\ signed = <<1, 2>>

\* C12: whatever the order of the calls and the state of the account, a call that
\* fails raises AcmeError or AccountAlreadyExistsError and nothing else.
TypedErrors == {"AcmeError", "AccountAlreadyExistsError"}

C12_OnlyTypedErrors ==
    (call # Idle /\ call.exc # NoExc) => call.exc.cls \in TypedErrors

\* C13: self.account.uri differs from its value before the call only after a register
\* call that returned a RegistrationResult; after a call that raised, a register
\* answered 201 with an unparsable body included, it is what it was before the call.
C13_UriChangesOnlyOnSuccess ==
    call # Idle =>
        /\ call.exc # NoExc => account_uri = call.before
        /\ account_uri # call.before =>
              /\ call.op = "register"
              /\ call.exc = NoExc
              /\ call.value.type = "RegistrationResult"

\* C14 as stated, for the calls whose primary request was answered: every call of
\* every operation sends exactly two requests, the nonce fetch GET /directory and
\* then its primary request.
IsNonceFetch(request) == request.method = "GET" /\ request.url = Directory
Operations == {"register", "get_registration", "update_registration",
               "new_authorization", "validate_authorization", "get_authorization",
               "issue_certificate"}

C14_TwoRoundTrips ==
    (call.op \in Operations /\ call.response # NoResponse) =>
        /\ Len(sent) = 2
        /\ IsNonceFetch(sent[1])
        /\ ~IsNonceFetch(sent[2])

\* C14, amended to what the operations send.  get_authorization sends its GET alone,
\* with no nonce fetch.  Every other operation sends the nonce fetch first and then its
\* POST, unless resolving the POST's path raised, in which case the nonce fetch is the
\* only request; issue_certificate answered 201 sends a third request, a GET of the
\* URL _get_link found for 'up', when that URL is not empty.
FetchesIssuer ==
    /\ call.op = "issue_certificate" /\ Status = Created
    /\ links[call.response.Link, "up"].raised = ""
    /\ links[call.response.Link, "up"].value \notin {None, ""}

C14_RoundTripsPerOperation ==
    /\ call.op = "get_authorization" =>
          /\ Len(sent) = IF call.response = NoResponse THEN 0 ELSE 1
          /\ \A i \in 1..Len(sent) :
                sent[i].method = "GET" /\ sent[i].url = paths[call.arg].value
    /\ call.op \in Operations \ {"get_authorization"} =>
          /\ Len(sent) >= 1 /\ IsNonceFetch(sent[1])
          /\ IF call.response = NoResponse THEN Len(sent) = 1
             ELSE /\ sent[2].method = "POST"
                  /\ Len(sent) = IF FetchesIssuer THEN 3 ELSE 2
          /\ Len(sent) = 3 =>
                /\ sent[3].method = "GET"
                /\ sent[3].url = links[call.response.Link, "up"].value

C14_Witness ==
    /\ call.op = "get_authorization"
    /\ call.arg = "https://ca.example/acme/authz/1"
    /\ Len(sent) = 1
    /\ sent[1].method = "GET" /\ sent[1].url = "https://ca.example/acme/authz/1"

\* C15: every AcmeError a call raises was built with the response the call received,
\* for an unexpected status and for an unparsable body alike.
C15_AcmeErrorCarriesResponse ==
    (call.op \in Operations /\ call.exc.cls = "AcmeError") =>
        /\ call.response # NoResponse
        /\ call.exc = AcmeError_response(call.response)

\* C16 as stated, for the calls whose POST was answered and whose response raises
\* nothing but a ValueError of its body: when the nonce fetch returned no Replay-Nonce,
\* the protected header's nonce is None, the POST is sent once, and the call returns or
\* raises according to the status code of the POST alone.
Signed == Operations \ {"get_authorization"}
AbsentNonce == call.op \in Signed /\ sent[1].replay.value = None
Posts == {i \in 1..Len(sent) : sent[i].method = "POST"}
SuccessStatus == IF call.op \in Lenient THEN TextStartsWith2(Status) ELSE Status = Created

C16_OutcomeByStatusAlone ==
    (/\ AbsentNonce /\ call.response # NoResponse
     /\ links[call.response.Link, "up"].raised = ""
     /\ links[call.response.Link, "terms-of-service"].raised = ""
     /\ call.response.body.json.raised \in {"", "ValueError"}) =>
        /\ Cardinality(Posts) = 1
        /\ sent[2].data.protected.nonce.value = None
        /\ call.exc = NoExc <=> SuccessStatus

\* C16, amended.  When the nonce fetch returned no Replay-Nonce, the protected header
\* still has a nonce entry, None, and the payload is signed and posted once wherever
\* the path of the POST resolves.  A status outside the operation's success statuses
\* makes the call raise the error built with the response; on a success status
\* update_registration and validate_authorization return True, while the other
\* operations go on to read the Link header or the body and may still raise.
C16_AbsentNonceIsSent ==
    AbsentNonce =>
        /\ Cardinality(Posts) = IF call.response = NoResponse THEN 0 ELSE 1
        /\ \A i \in Posts :
              /\ i = 2
              /\ "nonce" \in DOMAIN sent[i].data.protected
              /\ sent[i].data.protected.nonce.value = None
              /\ "resource" \in DOMAIN sent[i].data.payload
        /\ call.response # NoResponse =>
              /\ ~SuccessStatus =>
                    /\ call.exc.cls \in TypedErrors
                    /\ call.exc.response = call.response
              /\ (SuccessStatus /\ call.op \in {"update_registration",
                                                "validate_authorization"}) =>
                    (call.exc = NoExc /\ call.value = True)
              /\ call.exc = NoExc => SuccessStatus

C16_Witness ==
    /\ call.op = "new_authorization"
    /\ sent[1].replay.value = None
    /\ Len(sent) = 2
    /\ sent[2].data.protected.nonce.value = None
    /\ Status = Created
    /\ call.exc = AcmeError_message("ValueError")

\* C17 as stated, at the interleaving it describes: once both callers hold the nonce
\* that get_headers fetched for them and neither has posted, there is a next step in
\* which one caller's signed request carries the nonce fetched for the other.
consumes(c, d) ==
    /\ calls_post(c)
    /\ sent'[Len(sent')].data.protected.nonce = call[d].headers.protected_header.nonce

C17_OtherCallersNonceConsumed ==
    (\A c \in Callers : call[c].pc = "fetched") =>
        \E c, d \in Callers : c # d /\ ENABLED consumes(c, d)

\* C17, amended: in every interleaving of the steps of two callers, each signed request
\* carries the nonce returned by the latest GET /directory of its own caller, and no
\* two signed requests carry the nonce of the same fetch.
C17_CallersSignTheirOwnNonce ==
    /\ \A i \in 1..Len(sent) :
          sent[i].method = "POST" =>
              \E j \in 1..(i - 1) :
                  /\ sent[j].caller = sent[i].caller
                  /\ IsNonceFetch(sent[j])
                  /\ sent[j].replay = sent[i].data.protected.nonce
                  /\ \A k \in (j + 1)..(i - 1) : sent[k].caller # sent[i].caller
    /\ \A i, j \in 1..Len(signed) : signed[i] = signed[j] => i = j

C17_Witness ==
    /\ Len(sent) = 4
    /\ <<sent[1].caller, sent[2].caller, sent[3].caller, sent[4].caller>>
           = <<"A", "B", "B", "A">>
    /\ sent[3].method = "POST" /\ sent[3].data.protected.nonce.fetch = 2
    /\ sent[4].method = "POST" /\ sent[4].data.protected.nonce.fetch = 1

\* C18: whatever the status of the response, get_authorization returns the parsed body
\* when the body parses and raises AcmeError when it does not.
C18_GetAuthorizationIgnoresStatus ==
    (call.op = "get_authorization" /\ call.response # NoResponse) =>
        IF call.response.body.json.raised = ""
        THEN /\ call.exc = NoExc
             /\ call.value = [type |-> "json",
                              document |-> call.response.body.json.value]
        ELSE /\ call.exc.cls = "AcmeError"
             /\ call.value = NoValue

C18_Witness ==
    /\ call.op = "get_authorization"
    /\ call.response # NoResponse
    /\ Status = 500
    /\ call.exc = NoExc
    /\ call.value.document = "status: valid"

\* C19: the payload of every signed request has a 'resource' entry set by the
\* operation; update_registration signs its caller's params with 'resource' set to
\* 'reg', over a 'resource' entry of the params if there is one.
Resource == [register |-> "new-reg", get_registration |-> "reg",
             update_registration |-> "reg", new_authorization |-> "new-authz",
             validate_authorization |-> "challenge", issue_certificate |-> "new-cert"]

C19_ResourceFixedByOperation ==
    call.op \in Signed =>
        \A i \in 1..Len(sent) :
            sent[i].method = "POST" =>
                /\ "resource" \in DOMAIN sent[i].data.payload
                /\ sent[i].data.payload.resource = Resource[call.op]
                /\ call.op = "update_registration" =>
                      /\ DOMAIN sent[i].data.payload = DOMAIN call.arg \cup {"resource"}
                      /\ \A k \in DOMAIN call.arg \ {"resource"} :
                            sent[i].data.payload[k] = call.arg[k]

C19_Witness ==
    /\ call.op = "update_registration"
    /\ "resource" \in DOMAIN call.arg
    /\ call.arg.resource = "new-authz"
    /\ Len(sent) = 2
    /\ sent[2].data.payload.resource = "reg"
    /\ sent[2].data.payload.agreement = "https://cdn.example/signup/terms"

\* C20: DEFAULT_HEADERS stays what line 15 made it, and every request carries
\* DEFAULT_HEADERS plus only what was supplied for it: nothing more on a GET,
\* Content-Type on a POST, and Accept as well on the POST of issue_certificate.
Defaults == "User-Agent" :> UserAgent

C20_DefaultHeadersUnchanged ==
    /\ DEFAULT_HEADERS = Defaults
    /\ call.op \in Operations =>
          \A i \in 1..Len(sent) :
              sent[i].headers =
                  IF sent[i].method = "GET" THEN Defaults
                  ELSE IF call.op = "issue_certificate"
                  THEN Accept @@ ContentType @@ Defaults
                  ELSE ContentType @@ Defaults

C20_Witness ==
    /\ call.op = "new_authorization"
    /\ signed = <<1, 2>>
    /\ DEFAULT_HEADERS = Defaults
    /\ sent[1].headers = Defaults
    /\ DOMAIN sent[2].headers = {"Content-Type", "User-Agent"}
====
